---- MODULE Spec2Model ----
(***************************************************************************)
(* Write-Audit-Publish ingestion (wap_social_media_ingestion.py).          *)
(*                                                                         *)
(* The store is a set of refs (main and the branches), each holding        *)
(* namespaces and tables; a table holds a bag of rows.  The quality audit  *)
(* run_data_quality_checks is computed from the rows through the SQL       *)
(* aggregates it issues.  wap_ingest is a sequence of steps, one per       *)
(* remote call, each of which may raise.                                   *)
(***************************************************************************)
EXTENDS Integers, Sequences, FiniteSets, TLC

VARIABLES store, run, qc, initial

vars == <<store, run, qc, initial>>

(***************************************************************************)
(* Bounds of the model.                                                    *)
(***************************************************************************)
MaxClean == 20      \* clean rows of an audited table: 0..MaxClean
MaxBad == 2         \* rows of the first defective kind: 0..MaxBad
MaxTime == 2        \* timestamps (seconds) a run can read: 1..MaxTime

(***************************************************************************)
(* Cells, rows and tables.  A cell is NULL or one number.                  *)
(***************************************************************************)
NULL == <<>>
Val(v) == <<v>>
IsNull(c) == Len(c) = 0

None == [none |-> TRUE]

Columns ==
  {"user_id", "user_engagement_score", "time_on_feed_per_day",
   "perceived_stress_score", "self_reported_happiness", "age",
   "daily_active_minutes_instagram", "sessions_per_day", "followers_count",
   "following_count", "time_on_reels_per_day", "likes_given_per_day"}

\* A row that passes every check.
CleanRow ==
  [c \in Columns |->
     CASE c = "user_id" -> Val(1)
       [] c = "user_engagement_score" -> Val(5)
       [] c = "perceived_stress_score" -> Val(20)
       [] c = "self_reported_happiness" -> Val(5)
       [] c = "age" -> Val(30)
       [] OTHER -> Val(10)]

WithCell(row, c, v) == [row EXCEPT ![c] = v]

\* A table's content is a bag of rows: a function from rows to their number.
EmptyData == [r \in {} |-> 0]

RECURSIVE SumOver(_, _)
SumOver(d, S) ==
  IF S = {} THEN 0
  ELSE LET r == CHOOSE x \in S : TRUE IN d[r] + SumOver(d, S \ {r})

\* Bag of n1 rows r1 and n2 rows r2 (a row with number 0 is not in the bag).
BagOf2(r1, n1, r2, n2) ==
  LET S == {r \in {r1, r2} : (IF r = r1 THEN n1 ELSE 0) + (IF r = r2 THEN n2 ELSE 0) > 0}
  IN [r \in S |-> (IF r = r1 THEN n1 ELSE 0) + (IF r = r2 THEN n2 ELSE 0)]

BagOf3(r1, n1, r2, n2, r3, n3) ==
  LET cnt(r) == (IF r = r1 THEN n1 ELSE 0) + (IF r = r2 THEN n2 ELSE 0)
                + (IF r = r3 THEN n3 ELSE 0)
      S == {r \in {r1, r2, r3} : cnt(r) > 0}
  IN [r \in S |-> cnt(r)]

(***************************************************************************)
(* The SQL aggregates of the audit queries.                                *)
(***************************************************************************)
\* SELECT COUNT(*) FROM t
CountStar(d) == SumOver(d, DOMAIN d)

\* SELECT COUNT(col) FROM t : rows whose col is not NULL
CountCol(d, c) == SumOver(d, {r \in DOMAIN d : ~IsNull(r[c])})

\* SELECT COUNT(*) - COUNT(col) FROM t
NullCountQuery(d, c) == CountStar(d) - CountCol(d, c)

NonNullValues(d, c) == {r[c][1] : r \in {x \in DOMAIN d : ~IsNull(x[c])}}

\* SELECT MIN(col) FROM t : NULL when no row has a value
MinQuery(d, c) ==
  LET V == NonNullValues(d, c)
  IN IF V = {} THEN NULL ELSE Val(CHOOSE v \in V : \A w \in V : v <= w)

\* SELECT MAX(col) FROM t
MaxQuery(d, c) ==
  LET V == NonNullValues(d, c)
  IN IF V = {} THEN NULL ELSE Val(CHOOSE v \in V : \A w \in V : v >= w)

\* SELECT COUNT(*) FROM t WHERE col < 0 : a NULL is never < 0
NegCountQuery(d, c) ==
  SumOver(d, {r \in DOMAIN d : ~IsNull(r[c]) /\ r[c][1] < 0})

(***************************************************************************)
(* run_data_quality_checks                                                 *)
(***************************************************************************)
tier1_columns == <<"user_id", "user_engagement_score", "time_on_feed_per_day">>

tier2_columns == <<"perceived_stress_score", "self_reported_happiness", "age">>

tier3_columns ==
  <<"daily_active_minutes_instagram", "sessions_per_day", "followers_count",
    "following_count">>

range_checks ==
  << [col |-> "user_engagement_score", min_val |-> 0, max_val |-> 10],
     [col |-> "age", min_val |-> 13, max_val |-> 120],
     [col |-> "perceived_stress_score", min_val |-> 0, max_val |-> 40],
     [col |-> "self_reported_happiness", min_val |-> 1, max_val |-> 10] >>

non_negative_columns ==
  <<"time_on_feed_per_day", "time_on_reels_per_day",
    "daily_active_minutes_instagram", "sessions_per_day", "followers_count",
    "likes_given_per_day">>

\* The entries of sequence s, in order, for which Keep holds, mapped by Msg.
Collect(s, Keep(_), Msg(_)) ==
  LET t == SelectSeq(s, Keep)
  IN IF t = <<>> THEN <<>> ELSE [i \in 1..Len(t) |-> Msg(t[i])]

\* CHECK 1: row_count < min_rows
RowCountFails(row_count, min_rows) == row_count < min_rows

RowCountFailures(d, min_rows) ==
  IF RowCountFails(CountStar(d), min_rows)
  THEN << [check |-> "row_count", col |-> "*", count |-> CountStar(d)] >>
  ELSE <<>>

\* Variant: a single null in a tier-1 column is tolerated.
Tier1Fails_AboveOne(null_count) == null_count > 1

\* CHECK 2: a tier-1 column fails when null_count > 0
Tier1Fails(null_count) == null_count > 0

Tier1Failures(d) ==
  LET Keep(c) == Tier1Fails(NullCountQuery(d, c))
      Msg(c) == [check |-> "tier1_null", col |-> c, count |-> NullCountQuery(d, c)]
  IN Collect(tier1_columns, Keep, Msg)

\* Variant: pct >= 5 escalates.
PctOver5_Inclusive(null_count, row_count) == null_count * 100 >= 5 * row_count

\* CHECK 3: pct = (null_count / row_count) * 100; pct > 5 is critical.
\* The division is reached only under null_count > 0.  For counts in the
\* range of the model the double-precision comparison agrees with the exact
\* one: null_count * 100 > 5 * row_count.
PctOver5(null_count, row_count) == null_count * 100 > 5 * row_count

Tier2Critical(null_count, row_count) ==
  null_count > 0 /\ PctOver5(null_count, row_count)

Tier2Warns(null_count, row_count) ==
  null_count > 0 /\ ~PctOver5(null_count, row_count)

Tier2Failures(d) ==
  LET Keep(c) == Tier2Critical(NullCountQuery(d, c), CountStar(d))
      Msg(c) == [check |-> "tier2_null", col |-> c, count |-> NullCountQuery(d, c)]
  IN Collect(tier2_columns, Keep, Msg)

Tier2Warnings(d) ==
  LET Keep(c) == Tier2Warns(NullCountQuery(d, c), CountStar(d))
      Msg(c) == [check |-> "tier2_null", col |-> c, count |-> NullCountQuery(d, c)]
  IN Collect(tier2_columns, Keep, Msg)

\* CHECK 4: a tier-3 column warns when null_count > 0
Tier3Warns(null_count) == null_count > 0

Tier3Warnings(d) ==
  LET Keep(c) == Tier3Warns(NullCountQuery(d, c))
      Msg(c) == [check |-> "tier3_null", col |-> c, count |-> NullCountQuery(d, c)]
  IN Collect(tier3_columns, Keep, Msg)

\* Variant: a value equal to a bound is out of range.
RangeFails_Exclusive(actual_min, actual_max, min_val, max_val) ==
  /\ ~IsNull(actual_min)
  /\ ~IsNull(actual_max)
  /\ (actual_min[1] <= min_val \/ actual_max[1] >= max_val)

\* CHECK 5: value ranges, skipped when MIN or MAX is NULL
RangeFails(actual_min, actual_max, min_val, max_val) ==
  /\ ~IsNull(actual_min)
  /\ ~IsNull(actual_max)
  /\ (actual_min[1] < min_val \/ actual_max[1] > max_val)

RangeFailures(d) ==
  LET Keep(rc) == RangeFails(MinQuery(d, rc.col), MaxQuery(d, rc.col),
                             rc.min_val, rc.max_val)
      Msg(rc) == [check |-> "range", col |-> rc.col, count |-> 0]
  IN Collect(range_checks, Keep, Msg)

\* CHECK 6: negative values
NegativeFails(neg_count) == neg_count > 0

NegativeFailures(d) ==
  LET Keep(c) == NegativeFails(NegCountQuery(d, c))
      Msg(c) == [check |-> "negative", col |-> c, count |-> NegCountQuery(d, c)]
  IN Collect(non_negative_columns, Keep, Msg)

\* Variant: the audit stops at a failed row-count check.
CriticalFailures_ShortCircuit(d, min_rows) ==
  IF RowCountFailures(d, min_rows) # <<>>
  THEN RowCountFailures(d, min_rows)
  ELSE RowCountFailures(d, min_rows) \o Tier1Failures(d) \o Tier2Failures(d)
       \o RangeFailures(d) \o NegativeFailures(d)

CriticalFailures(d, min_rows) ==
  RowCountFailures(d, min_rows) \o Tier1Failures(d) \o Tier2Failures(d)
  \o RangeFailures(d) \o NegativeFailures(d)

Warnings(d) == Tier2Warnings(d) \o Tier3Warnings(d)

\* null_summary[col] = null_count, set for every column of the three tiers
null_summary(d) ==
  [c \in {tier1_columns[i] : i \in 1..Len(tier1_columns)}
          \cup {tier2_columns[i] : i \in 1..Len(tier2_columns)}
          \cup {tier3_columns[i] : i \in 1..Len(tier3_columns)}
     |-> NullCountQuery(d, c)]

\* Variant: pct is computed before null_count is looked at.
DivisionReached_Always(null_count) == TRUE

\* lines 126-127 and 157-158: pct = (null_count / row_count) * 100 is under
\* "if null_count > 0"
DivisionReached(null_count) == null_count > 0

\* The tier-2 and tier-3 columns at which the division raises
\* ZeroDivisionError: it is reached and row_count is 0.
ZeroDivisionSites(d) ==
  {c \in {tier2_columns[i] : i \in 1..Len(tier2_columns)}
          \cup {tier3_columns[i] : i \in 1..Len(tier3_columns)} :
     DivisionReached(NullCountQuery(d, c)) /\ CountStar(d) = 0}

ZeroDivisionError == [type |-> "ZeroDivisionError", msg |-> "division by zero", n |-> 0]

\* Variant: the warning-only tier-3 checks are left out of the count.
total_checks_NoTier3 ==
  1 + Len(tier1_columns) + Len(tier2_columns)
  + Len(range_checks) + Len(non_negative_columns)

total_checks ==
  1 + Len(tier1_columns) + Len(tier2_columns) + Len(tier3_columns)
  + Len(range_checks) + Len(non_negative_columns)

\* Variant: warnings count against the verdict.
Passed_NoWarnings(critical_failures, warnings) ==
  Len(critical_failures) = 0 /\ Len(warnings) = 0

\* passed = len(critical_failures) == 0
Passed(critical_failures, warnings) == Len(critical_failures) = 0

RunDataQualityChecks(d, min_rows) ==
  LET cf == CriticalFailures(d, min_rows)
      w == Warnings(d)
  IN [passed |-> Passed(cf, w),
      total_checks |-> total_checks,
      passed_checks |-> total_checks - Len(cf),
      failed_checks |-> Len(cf),
      critical_failures |-> cf,
      warnings |-> w,
      row_count |-> CountStar(d),
      null_summary |-> null_summary(d)]

(***************************************************************************)
(* The audit on its own: run_data_quality_checks applied to the tables of  *)
(* a bounded family.  A table has up to MaxClean clean rows, up to MaxBad  *)
(* rows with one defective cell and up to one row with another defective   *)
(* cell.                                                                   *)
(***************************************************************************)
DefectCells ==
  {<<c, NULL>> : c \in Columns}
  \cup {<<"user_engagement_score", Val(v)>> : v \in {-1, 0, 10, 11}}
  \cup {<<"age", Val(v)>> : v \in {12, 13, 120, 121}}
  \cup {<<"perceived_stress_score", Val(v)>> : v \in {-1, 0, 40, 41}}
  \cup {<<"self_reported_happiness", Val(v)>> : v \in {0, 1, 10, 11}}
  \cup {<<non_negative_columns[i], Val(v)>> :
          i \in 1..Len(non_negative_columns), v \in {-1, 0}}

DefectRow(k) == WithCell(CleanRow, k[1], k[2])

MinRowsChoices == {20, 100000}

AuditTables ==
  {BagOf3(CleanRow, n, DefectRow(k1), m, DefectRow(k2), p) :
     n \in 0..MaxClean, m \in 0..MaxBad, p \in 0..1,
     k1 \in DefectCells, k2 \in DefectCells}

NoStore == [r \in {} |-> 0]
NoRuns == [r \in {} |-> 0]

QInit ==
  /\ store = NoStore
  /\ run = NoRuns
  /\ initial = NoStore
  /\ \E d \in AuditTables, mr \in MinRowsChoices :
       qc = [data |-> d, min_rows |-> mr, result |-> None]

\* One call of run_data_quality_checks in which no query raises: it returns
\* its result, or the division of a null percentage raises.
QAudit ==
  /\ qc.result = None
  /\ qc' = [qc EXCEPT !.result =
               IF ZeroDivisionSites(qc.data) # {}
               THEN ZeroDivisionError
               ELSE RunDataQualityChecks(qc.data, qc.min_rows)]
  /\ UNCHANGED <<store, run, initial>>

QNext == QAudit

SpecQuality == QInit /\ [][QNext]_vars

(***************************************************************************)
(* The store: refs (main and branches) with their namespaces and tables.   *)
(***************************************************************************)
Main == [user |-> "", table |-> "main", ts |-> 0]

\* Variant: the table name is left out of the branch name.
BranchName_NoTable(username, table_name, ts) ==
  [user |-> username, table |-> "", ts |-> ts]

\* f"{username}.wap_{table_name}_{int(datetime.now().timestamp())}"
BranchName(username, table_name, ts) ==
  [user |-> username, table |-> table_name, ts |-> ts]

TableKey(namespace, table_name) == <<namespace, table_name>>

has_branch(st, b) == b \in DOMAIN st

has_table(st, ref, key) == key \in DOMAIN st[ref].tables

\* Variant: the new ref starts empty.
create_branch_Empty(st, b) ==
  (b :> [namespaces |-> {}, tables |-> EmptyData]) @@ st

\* create_branch(b, from_ref="main"): the new ref starts as a copy of main
create_branch(st, b) == (b :> st[Main]) @@ st

delete_branch(st, b) == [x \in DOMAIN st \ {b} |-> st[x]]

create_namespace(st, b, ns) ==
  [st EXCEPT ![b].namespaces = @ \cup {ns}]

\* create_table: schema only, no rows
create_table(st, b, key) ==
  [st EXCEPT ![b].tables = (key :> EmptyData) @@ @]

\* import_data: the rows of the source become the rows of the table
import_data(st, b, key, source) ==
  [st EXCEPT ![b].tables = (key :> source) @@ @]

\* merge_branch(source_ref=b, into_branch="main"): what the branch holds
\* becomes visible on main
merge_branch(st, b) ==
  [st EXCEPT ![Main] =
     [namespaces |-> st[Main].namespaces \cup st[b].namespaces,
      tables |-> st[b].tables @@ st[Main].tables]]

(***************************************************************************)
(* Errors.                                                                 *)
(***************************************************************************)
Err(type, msg, n) == [type |-> type, msg |-> msg, n |-> n]

StoreError(op) == Err("Exception", op, 0)

CollisionError == Err("AssertionError", "branch already exists", 0)

PreexistingTableError == Err("AssertionError", "table already exists on branch", 0)

\* f"Data quality validation failed with {failed_checks} critical issues..."
QualityGateError(failed_checks) ==
  Err("AssertionError", "data quality validation failed", failed_checks)

(***************************************************************************)
(* wap_ingest: one step per remote call.                                   *)
(***************************************************************************)
User == "u"
TargetTable == "t"
Namespace == "social"

SourceGood == BagOf2(CleanRow, 50, CleanRow, 0)
SourceCriticalNull == BagOf2(CleanRow, 49, WithCell(CleanRow, "user_id", NULL), 1)
SourceWarnOnly == BagOf2(CleanRow, 49, WithCell(CleanRow, "age", NULL), 1)
OldData == BagOf2(CleanRow, 1, CleanRow, 0)

Sources == {SourceGood, SourceCriticalNull, SourceWarnOnly}

NewRun(table_name, src, on_success, on_failure, min_rows, strict_quality) ==
  [table_name |-> table_name, s3_path |-> src, namespace |-> Namespace,
   on_success |-> on_success, on_failure |-> on_failure,
   min_rows |-> min_rows, strict_quality |-> strict_quality,
   branch_name |-> None, success |-> FALSE, quality_result |-> None,
   pc |-> "start", exc |-> None, raised |-> None, returned |-> None,
   calls |-> <<>>, handler_runs |-> 0]

Key(r) == TableKey(run[r].namespace, run[r].table_name)

\* A remote call issued at a line of wap_ingest: ok is FALSE when it raised,
\* ret is what has_branch or has_table answered.
Call(op, line, ok, ret) == [op |-> op, line |-> line, ok |-> ok, ret |-> ret]

\* The run r moves to pc p, having issued the calls cs.
Goto(r, p, cs) ==
  run' = [run EXCEPT ![r].pc = p, ![r].calls = @ \o cs]

\* Variant: the exception leaves wap_ingest without entering the handler.
Raise_SkipsHandler(r, e, cs) ==
  run' = [run EXCEPT ![r].pc = "raised", ![r].exc = e, ![r].raised = e,
                     ![r].calls = @ \o cs]

\* An exception e raised inside the try block reaches the handler.
Raise(r, e, cs) ==
  run' = [run EXCEPT ![r].pc = "except", ![r].exc = e, ![r].calls = @ \o cs]

\* An exception e leaves wap_ingest.
Propagate(r, e, cs) ==
  run' = [run EXCEPT ![r].pc = "raised", ![r].raised = e, ![r].calls = @ \o cs]

\* lines 294-302
Begin(r) ==
  /\ run[r].pc = "start"
  /\ \/ /\ \E ts \in 1..MaxTime :
             run' = [run EXCEPT
                       ![r].branch_name = BranchName(User, run[r].table_name, ts),
                       ![r].success = FALSE,
                       ![r].quality_result = None,
                       ![r].pc = "has_branch",
                       ![r].calls = @ \o <<Call("info", 297, TRUE, TRUE)>>]
     \/ Propagate(r, StoreError("info"), <<Call("info", 297, FALSE, FALSE)>>)
  /\ UNCHANGED <<store, qc, initial>>

\* lines 311-313
AssertNoBranch(r) ==
  /\ run[r].pc = "has_branch"
  /\ \/ Raise(r, StoreError("has_branch"), <<Call("has_branch", 311, FALSE, FALSE)>>)
     \/ /\ has_branch(store, run[r].branch_name)
        /\ Raise(r, CollisionError, <<Call("has_branch", 311, TRUE, TRUE)>>)
     \/ /\ ~has_branch(store, run[r].branch_name)
        /\ Goto(r, "create_branch", <<Call("has_branch", 311, TRUE, FALSE)>>)
  /\ UNCHANGED <<store, qc, initial>>

\* line 314
CreateBranch(r) ==
  /\ run[r].pc = "create_branch"
  /\ \/ /\ ~has_branch(store, run[r].branch_name)
        /\ store' = create_branch(store, run[r].branch_name)
        /\ Goto(r, "create_namespace", <<Call("create_branch", 314, TRUE, TRUE)>>)
     \/ /\ Raise(r, StoreError("create_branch"), <<Call("create_branch", 314, FALSE, FALSE)>>)
        /\ UNCHANGED store
  /\ UNCHANGED <<qc, initial>>

\* What create_namespace raises: the namespace is already on the branch, or
\* the call fails for another reason.
NamespaceExistsError == Err("Exception", "namespace already exists", 0)

CreateNamespaceErrors(st, b, ns) ==
  {StoreError("create_namespace")}
  \cup (IF ns \in st[b].namespaces THEN {NamespaceExistsError} ELSE {})

\* Variant: every failure of create_namespace is taken for success.
NamespaceErrorIgnored_Any(e) == TRUE

\* "already exists" in str(e).lower()
NamespaceErrorIgnored(e) == e.msg = "namespace already exists"

\* lines 318-325
CreateNamespace(r) ==
  /\ run[r].pc = "create_namespace"
  /\ has_branch(store, run[r].branch_name)
  /\ \/ /\ run[r].namespace \notin store[run[r].branch_name].namespaces
        /\ store' = create_namespace(store, run[r].branch_name, run[r].namespace)
        /\ Goto(r, "has_table", <<Call("create_namespace", 319, TRUE, TRUE)>>)
     \/ /\ \E e \in CreateNamespaceErrors(store, run[r].branch_name, run[r].namespace) :
             IF NamespaceErrorIgnored(e)
             THEN Goto(r, "has_table", <<Call("create_namespace", 319, FALSE, FALSE)>>)
             ELSE Raise(r, e, <<Call("create_namespace", 319, FALSE, FALSE)>>)
        /\ UNCHANGED store
  /\ UNCHANGED <<qc, initial>>

\* Variant: the answer of has_table is ignored.
AssertNoTable_Ignored(r) ==
  /\ run[r].pc = "has_table"
  /\ has_branch(store, run[r].branch_name)
  /\ \/ Raise(r, StoreError("has_table"), <<Call("has_table", 328, FALSE, FALSE)>>)
     \/ Goto(r, "create_table",
             <<Call("has_table", 328, TRUE,
                    has_table(store, run[r].branch_name, Key(r)))>>)
  /\ UNCHANGED <<store, qc, initial>>

\* lines 328-331
AssertNoTable(r) ==
  /\ run[r].pc = "has_table"
  /\ has_branch(store, run[r].branch_name)
  /\ \/ Raise(r, StoreError("has_table"), <<Call("has_table", 328, FALSE, FALSE)>>)
     \/ /\ has_table(store, run[r].branch_name, Key(r))
        /\ Raise(r, PreexistingTableError, <<Call("has_table", 328, TRUE, TRUE)>>)
     \/ /\ ~has_table(store, run[r].branch_name, Key(r))
        /\ Goto(r, "create_table", <<Call("has_table", 328, TRUE, FALSE)>>)
  /\ UNCHANGED <<store, qc, initial>>

\* Variant: a failure of create_table is passed over.
CreateTable_FailureIgnored(r) ==
  /\ run[r].pc = "create_table"
  /\ has_branch(store, run[r].branch_name)
  /\ \/ /\ store' = create_table(store, run[r].branch_name, Key(r))
        /\ Goto(r, "import_data", <<Call("create_table", 335, TRUE, TRUE)>>)
     \/ /\ Goto(r, "import_data", <<Call("create_table", 335, FALSE, FALSE)>>)
        /\ UNCHANGED store
  /\ UNCHANGED <<qc, initial>>

\* lines 335-340
CreateTable(r) ==
  /\ run[r].pc = "create_table"
  /\ has_branch(store, run[r].branch_name)
  /\ \/ /\ store' = create_table(store, run[r].branch_name, Key(r))
        /\ Goto(r, "import_data", <<Call("create_table", 335, TRUE, TRUE)>>)
     \/ /\ Raise(r, StoreError("create_table"), <<Call("create_table", 335, FALSE, FALSE)>>)
        /\ UNCHANGED store
  /\ UNCHANGED <<qc, initial>>

\* lines 344-349
ImportData(r) ==
  /\ run[r].pc = "import_data"
  /\ has_branch(store, run[r].branch_name)
  /\ \/ /\ store' = import_data(store, run[r].branch_name, Key(r), run[r].s3_path)
        /\ Goto(r, "audit", <<Call("import_data", 344, TRUE, TRUE)>>)
     \/ /\ Raise(r, StoreError("import_data"), <<Call("import_data", 344, FALSE, FALSE)>>)
        /\ UNCHANGED store
  /\ UNCHANGED <<qc, initial>>

\* Variant: the audit drops the rows of the table it has read.
Audit_Truncates(r) ==
  /\ run[r].pc = "audit"
  /\ has_branch(store, run[r].branch_name)
  /\ \/ /\ run' = [run EXCEPT
                     ![r].quality_result =
                        RunDataQualityChecks(store[run[r].branch_name].tables[Key(r)],
                                             run[r].min_rows),
                     ![r].pc = "gate",
                     ![r].calls = @ \o <<Call("query", 353, TRUE, TRUE)>>]
        /\ store' = create_table(store, run[r].branch_name, Key(r))
     \/ /\ Raise(r, StoreError("query"), <<Call("query", 353, FALSE, FALSE)>>)
        /\ UNCHANGED store
  /\ UNCHANGED <<qc, initial>>

\* lines 353-359: the queries of the audit, any of which may raise
Audit(r) ==
  /\ run[r].pc = "audit"
  /\ has_branch(store, run[r].branch_name)
  /\ \/ run' = [run EXCEPT
                  ![r].quality_result =
                     RunDataQualityChecks(store[run[r].branch_name].tables[Key(r)],
                                          run[r].min_rows),
                  ![r].pc = "gate",
                  ![r].calls = @ \o <<Call("query", 353, TRUE, TRUE)>>]
     \/ Raise(r, StoreError("query"), <<Call("query", 353, FALSE, FALSE)>>)
  /\ UNCHANGED <<store, qc, initial>>

\* Variants of the gate condition: never raising; raising on a passed verdict.
QualityGateRaises_Never(strict_quality, passed) == FALSE

QualityGateRaises_Inverted(strict_quality, passed) == strict_quality /\ passed

\* line 362: if strict_quality and not quality_result.passed
QualityGateRaises(strict_quality, passed) == strict_quality /\ ~passed

\* Variant: success is the verdict of the audit.
Gate_SuccessIsVerdict(r) ==
  /\ run[r].pc = "gate"
  /\ \/ /\ QualityGateRaises(run[r].strict_quality, run[r].quality_result.passed)
        /\ Raise(r, QualityGateError(run[r].quality_result.failed_checks), <<>>)
     \/ /\ ~QualityGateRaises(run[r].strict_quality, run[r].quality_result.passed)
        /\ run' = [run EXCEPT ![r].success = run[r].quality_result.passed,
                              ![r].pc = "publish"]
  /\ UNCHANGED <<store, qc, initial>>

\* lines 362-368
Gate(r) ==
  /\ run[r].pc = "gate"
  /\ \/ /\ QualityGateRaises(run[r].strict_quality, run[r].quality_result.passed)
        /\ Raise(r, QualityGateError(run[r].quality_result.failed_checks), <<>>)
     \/ /\ ~QualityGateRaises(run[r].strict_quality, run[r].quality_result.passed)
        /\ run' = [run EXCEPT ![r].success = TRUE, ![r].pc = "publish"]
  /\ UNCHANGED <<store, qc, initial>>

\* Variants of the publish condition: never merging; always merging.
PublishMerges_Never(on_success) == FALSE

PublishMerges_Always(on_success) == TRUE

\* line 375: if on_success == "merge"
PublishMerges(on_success) == on_success = "merge"

\* Variant: a failed merge is issued again.
Publish_Retry(r) ==
  /\ run[r].pc = "publish"
  /\ \/ /\ PublishMerges(run[r].on_success)
        /\ has_branch(store, run[r].branch_name)
        /\ store' = merge_branch(store, run[r].branch_name)
        /\ Goto(r, "delete_merged", <<Call("merge_branch", 376, TRUE, TRUE)>>)
     \/ /\ PublishMerges(run[r].on_success)
        /\ Goto(r, "publish", <<Call("merge_branch", 376, FALSE, FALSE)>>)
        /\ UNCHANGED store
     \/ /\ ~PublishMerges(run[r].on_success)
        /\ Goto(r, "return", <<>>)
        /\ UNCHANGED store
  /\ UNCHANGED <<qc, initial>>

\* lines 375-376, 380-384
Publish(r) ==
  /\ run[r].pc = "publish"
  /\ \/ /\ PublishMerges(run[r].on_success)
        /\ has_branch(store, run[r].branch_name)
        /\ store' = merge_branch(store, run[r].branch_name)
        /\ Goto(r, "delete_merged", <<Call("merge_branch", 376, TRUE, TRUE)>>)
     \/ /\ PublishMerges(run[r].on_success)
        /\ Raise(r, StoreError("merge_branch"), <<Call("merge_branch", 376, FALSE, FALSE)>>)
        /\ UNCHANGED store
     \/ /\ ~PublishMerges(run[r].on_success)
        /\ Goto(r, "return", <<>>)
        /\ UNCHANGED store
  /\ UNCHANGED <<qc, initial>>

\* line 378
DeleteMerged(r) ==
  /\ run[r].pc = "delete_merged"
  /\ \/ /\ has_branch(store, run[r].branch_name)
        /\ store' = delete_branch(store, run[r].branch_name)
        /\ Goto(r, "return", <<Call("delete_branch", 378, TRUE, TRUE)>>)
     \/ /\ Raise(r, StoreError("delete_branch"), <<Call("delete_branch", 378, FALSE, FALSE)>>)
        /\ UNCHANGED store
  /\ UNCHANGED <<qc, initial>>

\* line 388: if on_failure == "delete"
CleanupDeletes(on_failure) == on_failure = "delete"

\* lines 386-388, 392-394: the handler; with on_failure = keep it re-raises
Except(r) ==
  /\ run[r].pc = "except"
  /\ \/ /\ CleanupDeletes(run[r].on_failure)
        /\ run' = [run EXCEPT ![r].pc = "cleanup_has_branch",
                              ![r].handler_runs = @ + 1]
     \/ /\ ~CleanupDeletes(run[r].on_failure)
        /\ run' = [run EXCEPT ![r].pc = "raised",
                              ![r].raised = run[r].exc,
                              ![r].handler_runs = @ + 1]
  /\ UNCHANGED <<store, qc, initial>>

\* line 389, then 394 when the branch is absent
CleanupHasBranch(r) ==
  /\ run[r].pc = "cleanup_has_branch"
  /\ \/ Propagate(r, StoreError("cleanup has_branch"), <<Call("has_branch", 389, FALSE, FALSE)>>)
     \/ /\ has_branch(store, run[r].branch_name)
        /\ Goto(r, "cleanup_delete", <<Call("has_branch", 389, TRUE, TRUE)>>)
     \/ /\ ~has_branch(store, run[r].branch_name)
        /\ Propagate(r, run[r].exc, <<Call("has_branch", 389, TRUE, FALSE)>>)
  /\ UNCHANGED <<store, qc, initial>>

\* lines 390-391, then 394
CleanupDelete(r) ==
  /\ run[r].pc = "cleanup_delete"
  /\ \/ /\ has_branch(store, run[r].branch_name)
        /\ store' = delete_branch(store, run[r].branch_name)
        /\ Propagate(r, run[r].exc, <<Call("delete_branch", 390, TRUE, TRUE)>>)
     \/ /\ Propagate(r, StoreError("cleanup delete_branch"),
                     <<Call("delete_branch", 390, FALSE, FALSE)>>)
        /\ UNCHANGED store
  /\ UNCHANGED <<qc, initial>>

\* line 396
Return(r) ==
  /\ run[r].pc = "return"
  /\ run' = [run EXCEPT
               ![r].returned = [branch_name |-> run[r].branch_name,
                                success |-> run[r].success,
                                quality_result |-> run[r].quality_result],
               ![r].pc = "done"]
  /\ UNCHANGED <<store, qc, initial>>

(***************************************************************************)
(* One run of wap_ingest against a store in which main may already hold    *)
(* the namespace and the table, and a branch of the name derived at        *)
(* second 1 may be left over.                                              *)
(***************************************************************************)
MainContents ==
  { [namespaces |-> {}, tables |-> EmptyData],
    [namespaces |-> {Namespace}, tables |-> EmptyData],
    [namespaces |-> {Namespace},
     tables |-> (TableKey(Namespace, TargetTable) :> OldData)] }

StaleBranch == BranchName(User, TargetTable, 1)

NoQc == [data |-> EmptyData, min_rows |-> 0, result |-> None]

Init ==
  /\ \E m \in MainContents, stale \in BOOLEAN :
       store = IF stale THEN (Main :> m) @@ (StaleBranch :> m) ELSE (Main :> m)
  /\ \E src \in Sources, os \in {"inspect", "merge"}, of \in {"keep", "delete"},
        mr \in MinRowsChoices, sq \in BOOLEAN :
       run = [r \in {1} |-> NewRun(TargetTable, src, os, of, mr, sq)]
  /\ qc = NoQc
  /\ initial = store

Next ==
  \/ \E r \in DOMAIN run : Begin(r)
  \/ \E r \in DOMAIN run : AssertNoBranch(r)
  \/ \E r \in DOMAIN run : CreateBranch(r)
  \/ \E r \in DOMAIN run : CreateNamespace(r)
  \/ \E r \in DOMAIN run : AssertNoTable(r)
  \/ \E r \in DOMAIN run : CreateTable(r)
  \/ \E r \in DOMAIN run : ImportData(r)
  \/ \E r \in DOMAIN run : Audit(r)
  \/ \E r \in DOMAIN run : Gate(r)
  \/ \E r \in DOMAIN run : Publish(r)
  \/ \E r \in DOMAIN run : DeleteMerged(r)
  \/ \E r \in DOMAIN run : Except(r)
  \/ \E r \in DOMAIN run : CleanupHasBranch(r)
  \/ \E r \in DOMAIN run : CleanupDelete(r)
  \/ \E r \in DOMAIN run : Return(r)

Spec == Init /\ [][Next]_vars

(***************************************************************************)
(* One run that an external interrupt may hit inside the try block.  The   *)
(* interrupt arrives as KeyboardInterrupt, which is a BaseException and    *)
(* not an Exception.                                                       *)
(***************************************************************************)
KeyboardInterrupt == Err("KeyboardInterrupt", "interrupt", 0)

\* line 386: except Exception as e
HandlerCatches(e) == e.type \in {"Exception", "AssertionError"}

TryBlockPcs ==
  {"has_branch", "create_branch", "create_namespace", "has_table",
   "create_table", "import_data", "audit", "gate", "publish", "delete_merged"}

\* lines 304-386: an interrupt delivered while the try block executes
Interrupt(r) ==
  /\ run[r].pc \in TryBlockPcs
  /\ IF HandlerCatches(KeyboardInterrupt)
     THEN Raise(r, KeyboardInterrupt, <<>>)
     ELSE Propagate(r, KeyboardInterrupt, <<>>)
  /\ UNCHANGED <<store, qc, initial>>

NextInterrupt ==
  \/ Next
  \/ \E r \in DOMAIN run : Interrupt(r)

SpecInterrupt == Init /\ [][NextInterrupt]_vars

(***************************************************************************)
(* Two runs of wap_ingest by the same user for two distinct tables, their  *)
(* steps interleaved in every order.                                       *)
(***************************************************************************)
OtherTable == "t2"

InitConcurrent ==
  /\ store = (Main :> [namespaces |-> {}, tables |-> EmptyData])
  /\ \E src \in {SourceGood, SourceCriticalNull},
        os1 \in {"inspect", "merge"}, of1 \in {"keep", "delete"},
        os2 \in {"inspect", "merge"}, of2 \in {"keep", "delete"} :
       run = [r \in {1, 2} |->
                IF r = 1 THEN NewRun(TargetTable, src, os1, of1, 20, TRUE)
                ELSE NewRun(OtherTable, SourceWarnOnly, os2, of2, 20, TRUE)]
  /\ qc = NoQc
  /\ initial = store

SpecConcurrent == InitConcurrent /\ [][Next]_vars

(***************************************************************************)
(* Two runs of wap_ingest by the same user for the same table, their steps *)
(* interleaved in every order; they derive the same branch name when they  *)
(* read the same second.                                                   *)
(***************************************************************************)
InitSameTable ==
  /\ store = (Main :> [namespaces |-> {}, tables |-> EmptyData])
  /\ \E os1 \in {"inspect", "merge"}, of1 \in {"keep", "delete"} :
       run = [r \in {1, 2} |->
                IF r = 1 THEN NewRun(TargetTable, SourceGood, os1, of1, 20, TRUE)
                ELSE NewRun(TargetTable, SourceGood, "merge", "delete", 20, TRUE)]
  /\ qc = NoQc
  /\ initial = store

SpecSameTable == InitSameTable /\ [][Next]_vars

(***************************************************************************)
(* Two calls of wap_ingest for the same table, one after the other: the    *)
(* function is synchronous, so the second call begins when the first has   *)
(* returned or raised.                                                     *)
(***************************************************************************)
InitSequential ==
  /\ \E m \in {[namespaces |-> {}, tables |-> EmptyData],
                [namespaces |-> {Namespace}, tables |-> EmptyData]} :
       store = (Main :> m)
  /\ \E os1 \in {"inspect", "merge"}, of1 \in {"keep", "delete"},
        of2 \in {"keep", "delete"}, sq \in BOOLEAN :
       run = [r \in {1, 2} |->
                IF r = 1 THEN NewRun(TargetTable, SourceGood, os1, of1, 20, sq)
                ELSE NewRun(TargetTable, SourceWarnOnly, "merge", of2, 20, sq)]
  /\ qc = NoQc
  /\ initial = store

\* Every earlier call has left wap_ingest.
Turn(r) == \A q \in DOMAIN run : q < r => run[q].pc \in {"raised", "done"}

BeginInTurn(r) == Turn(r) /\ Begin(r)

NextSequential ==
  \/ \E r \in DOMAIN run : BeginInTurn(r)
  \/ \E r \in DOMAIN run : AssertNoBranch(r)
  \/ \E r \in DOMAIN run : CreateBranch(r)
  \/ \E r \in DOMAIN run : CreateNamespace(r)
  \/ \E r \in DOMAIN run : AssertNoTable(r)
  \/ \E r \in DOMAIN run : CreateTable(r)
  \/ \E r \in DOMAIN run : ImportData(r)
  \/ \E r \in DOMAIN run : Audit(r)
  \/ \E r \in DOMAIN run : Gate(r)
  \/ \E r \in DOMAIN run : Publish(r)
  \/ \E r \in DOMAIN run : DeleteMerged(r)
  \/ \E r \in DOMAIN run : Except(r)
  \/ \E r \in DOMAIN run : CleanupHasBranch(r)
  \/ \E r \in DOMAIN run : CleanupDelete(r)
  \/ \E r \in DOMAIN run : Return(r)

SpecSequential == InitSequential /\ [][NextSequential]_vars

TypeOK ==
  /\ Main \in DOMAIN store
  /\ \A r \in DOMAIN run :
       run[r].pc \in {"start", "has_branch", "create_branch", "create_namespace",
                      "has_table", "create_table", "import_data", "audit",
                      "gate", "publish", "delete_merged", "except",
                      "cleanup_has_branch", "cleanup_delete", "raised",
                      "return", "done"}

(***************************************************************************)
(* Properties.                                                             *)
(***************************************************************************)
Runs == DOMAIN run

Calls(r) == {run[r].calls[i] : i \in 1..Len(run[r].calls)}

Issued(r, op) == \E c \in Calls(r) : c.op = op

Succeeded(r, op) == \E c \in Calls(r) : c.op = op /\ c.ok

Failed(r, op) == \E c \in Calls(r) : c.op = op /\ ~c.ok

HasVerdict(r) == run[r].quality_result # None

VerdictFailed(r) == HasVerdict(r) /\ ~run[r].quality_result.passed

\* The rows of run r's source are what main shows for the target table.
VisibleOnMain(r) ==
  /\ has_table(store, Main, Key(r))
  /\ store[Main].tables[Key(r)] = run[r].s3_path

MutatingOps ==
  {"create_branch", "delete_branch", "create_namespace", "create_table",
   "import_data", "merge_branch"}

\* The run has left wap_ingest with an exception that went through the handler.
RaisedThroughHandler(r) == run[r].pc = "raised" /\ run[r].exc # None

\* C1 as stated: for every combination of on_success, on_failure and
\* strict_quality, merge_branch is issued only after the audit returned a
\* verdict with passed = true, and a source whose verdict has a critical
\* failure is never visible on main.
C1_MergeOnlyAfterPassed ==
  \A r \in Runs :
    /\ Issued(r, "merge_branch") => HasVerdict(r) /\ run[r].quality_result.passed
    /\ VisibleOnMain(r) => HasVerdict(r) /\ run[r].quality_result.passed

\* C1 amended: merge_branch is issued only after the audit returned a
\* verdict, and in a run with strict_quality = true that verdict has
\* passed = true; a source whose verdict has a critical failure becomes
\* visible on main only through a run with strict_quality = false.
C1_MergeOnlyAfterGate ==
  \A r \in Runs :
    /\ Issued(r, "merge_branch") =>
         /\ HasVerdict(r)
         /\ run[r].strict_quality => run[r].quality_result.passed
    /\ VisibleOnMain(r) =>
         /\ HasVerdict(r)
         /\ run[r].strict_quality => run[r].quality_result.passed

C1_Witness ==
  \E r \in Runs :
    /\ Succeeded(r, "merge_branch")
    /\ run[r].strict_quality
    /\ run[r].quality_result.passed
    /\ VisibleOnMain(r)

\* C2: in a run with strict_quality = true whose verdict has passed = false,
\* the gate raises the quality-gate error carrying the number of critical
\* failures, merge_branch is never issued, and with on_failure = keep that
\* error reaches the caller while the isolation branch still exists.
C2_StrictGateAborts ==
  \A r \in Runs :
    (run[r].strict_quality /\ VerdictFailed(r)) =>
      /\ ~Issued(r, "merge_branch")
      /\ run[r].pc \in {"gate", "except", "cleanup_has_branch", "cleanup_delete", "raised"}
      /\ run[r].pc # "gate" =>
           /\ run[r].exc = Err("AssertionError", "data quality validation failed",
                               Len(run[r].quality_result.critical_failures))
           /\ run[r].exc.n > 0
      /\ (run[r].pc = "raised" /\ run[r].on_failure = "keep") =>
           /\ run[r].raised = run[r].exc
           /\ has_branch(store, run[r].branch_name)

C2_Witness ==
  \E r \in Runs :
    /\ run[r].strict_quality
    /\ VerdictFailed(r)
    /\ run[r].pc = "raised"
    /\ run[r].on_failure = "keep"
    /\ run[r].raised = QualityGateError(1)
    /\ has_branch(store, run[r].branch_name)

\* C3 as stated: when the derived branch already exists at the start, the
\* collision error is raised and nothing in the store is mutated: no
\* mutating call is issued and the existing branch still exists.
C3_CollisionMutatesNothing ==
  \A r \in Runs :
    run[r].exc = CollisionError =>
      /\ \A c \in Calls(r) : c.op \notin MutatingOps
      /\ store = initial
      /\ has_branch(store, run[r].branch_name)

\* C4 as stated: when merge_branch fails, the run never deletes the
\* isolation branch, which still exists when the error reaches the caller.
C4_FailedMergeKeepsBranch ==
  \A r \in Runs :
    Failed(r, "merge_branch") =>
      /\ ~Issued(r, "delete_branch")
      /\ has_branch(store, run[r].branch_name)

\* C5: after a normal return with on_success = merge the isolation branch
\* does not exist, the target table is on main with the imported rows, and
\* the merge succeeded before the branch was deleted.
C5_MergedAndRetired ==
  \A r \in Runs :
    (run[r].pc = "done" /\ run[r].on_success = "merge") =>
      /\ ~has_branch(store, run[r].branch_name)
      /\ has_table(store, Main, Key(r))
      /\ VisibleOnMain(r)
      /\ \E i, j \in 1..Len(run[r].calls) :
           /\ i < j
           /\ run[r].calls[i].op = "merge_branch" /\ run[r].calls[i].ok
           /\ run[r].calls[j].op = "delete_branch" /\ run[r].calls[j].ok

C5_Witness ==
  \E r \in Runs :
    /\ run[r].pc = "done"
    /\ run[r].on_success = "merge"
    /\ ~has_branch(store, run[r].branch_name)
    /\ VisibleOnMain(r)

\* C6: after a normal return with on_success = inspect the isolation branch
\* still exists, main is as it was at the start, and neither merge_branch
\* nor delete_branch was issued.
C6_InspectLeavesMain ==
  \A r \in Runs :
    (run[r].pc = "done" /\ run[r].on_success = "inspect") =>
      /\ has_branch(store, run[r].branch_name)
      /\ store[Main] = initial[Main]
      /\ ~Issued(r, "merge_branch")
      /\ ~Issued(r, "delete_branch")

C6_Witness ==
  \E r \in Runs :
    /\ run[r].pc = "done"
    /\ run[r].on_success = "inspect"
    /\ has_branch(store, run[r].branch_name)
    /\ has_table(store, run[r].branch_name, Key(r))

\* C7 as stated: the error that reaches the caller is the error a phase
\* raised, also when the cleanup's has_branch or delete_branch fails.
C7_OriginalErrorReachesCaller ==
  \A r \in Runs : RaisedThroughHandler(r) => run[r].raised = run[r].exc

\* C8 as stated: on an error, with on_failure = delete the handler issues
\* delete_branch exactly when its has_branch answered that the branch
\* exists, then the error is re-raised; with on_failure = keep the handler
\* issues no call and re-raises.
C8_CleanupThenReraise ==
  \A r \in Runs :
    RaisedThroughHandler(r) =>
      /\ run[r].raised = run[r].exc
      /\ run[r].on_failure = "delete" =>
           ((\E c \in Calls(r) : c.op = "delete_branch" /\ c.line = 390)
              <=> (\E c \in Calls(r) : c.op = "has_branch" /\ c.line = 389 /\ c.ok /\ c.ret))
      /\ run[r].on_failure = "keep" =>
           \A c \in Calls(r) : c.line \notin {389, 390}

(***************************************************************************)
(* Properties of the audit (SpecQuality).                                  *)
(***************************************************************************)
Audited == qc.result # None

InSeq(s, x) == \E i \in 1..Len(s) : s[i] = x

ColsOf(s) == {s[i] : i \in 1..Len(s)}

\* Some critical-tier outcome failed, read off the table itself.
SomeCriticalOutcomeFailed(d, min_rows) ==
  \/ CountStar(d) < min_rows
  \/ \E c \in ColsOf(tier1_columns) : NullCountQuery(d, c) > 0
  \/ \E c \in ColsOf(tier2_columns) : NullCountQuery(d, c) * 100 > 5 * CountStar(d)
  \/ \E rc \in ColsOf(range_checks) :
       /\ NonNullValues(d, rc.col) # {}
       /\ \E v \in NonNullValues(d, rc.col) : v < rc.min_val \/ v > rc.max_val
  \/ \E c \in ColsOf(non_negative_columns) :
       \E r \in DOMAIN d : ~IsNull(r[c]) /\ r[c][1] < 0

\* C9: passed is false exactly when a critical-tier outcome failed, that is
\* passed = (critical_failures is empty); warnings do not affect it.
C9_PassedIffNoCritical ==
  Audited =>
    /\ qc.result.passed = (qc.result.critical_failures = <<>>)
    /\ ~qc.result.passed <=> SomeCriticalOutcomeFailed(qc.data, qc.min_rows)

C9_Witness ==
  /\ Audited
  /\ qc.result.warnings # <<>>
  /\ qc.result.critical_failures = <<>>
  /\ qc.result.passed

Tier2Msg(d, c) == [check |-> "tier2_null", col |-> c, count |-> NullCountQuery(d, c)]

\* C10: a tier-2 column with nulls gives a critical failure exactly when
\* null_count / row_count is strictly above 5%, and a warning otherwise; at
\* exactly 5% it gives a warning and no critical failure.
C10_Tier2Escalation ==
  Audited =>
    \A c \in ColsOf(tier2_columns) :
      LET n == NullCountQuery(qc.data, c)
          rows == CountStar(qc.data)
          critical == InSeq(qc.result.critical_failures, Tier2Msg(qc.data, c))
          warned == InSeq(qc.result.warnings, Tier2Msg(qc.data, c))
      IN /\ (n > 0 /\ n * 100 > 5 * rows) => critical /\ ~warned
         /\ (n > 0 /\ n * 100 <= 5 * rows) => warned /\ ~critical
         /\ n = 0 => ~warned /\ ~critical

C10_Witness ==
  /\ Audited
  /\ \E c \in ColsOf(tier2_columns) :
       /\ NullCountQuery(qc.data, c) > 0
       /\ NullCountQuery(qc.data, c) * 100 = 5 * CountStar(qc.data)
       /\ InSeq(qc.result.warnings, Tier2Msg(qc.data, c))
       /\ ~InSeq(qc.result.critical_failures, Tier2Msg(qc.data, c))

Occurrences(s, x) == Cardinality({i \in 1..Len(s) : s[i] = x})

NullCheckEntries(s, c) ==
  {i \in 1..Len(s) :
     s[i].col = c /\ s[i].check \in {"tier1_null", "tier2_null", "tier3_null"}}

\* C11: each tier-1 column with null_count > 0 has exactly one critical
\* failure naming the column and the count, and none otherwise, so a fully
\* null tier-1 column gives passed = false; each tier-3 column with
\* null_count > 0 has exactly one warning and its null check never adds a
\* critical failure, also at 100% nulls.
C11_TierEffects ==
  Audited =>
    /\ \A c \in ColsOf(tier1_columns) :
         LET n == NullCountQuery(qc.data, c)
             msg == [check |-> "tier1_null", col |-> c, count |-> n]
         IN /\ n > 0 => /\ Occurrences(qc.result.critical_failures, msg) = 1
                        /\ Cardinality(NullCheckEntries(qc.result.critical_failures, c)) = 1
                        /\ ~qc.result.passed
            /\ n = 0 => NullCheckEntries(qc.result.critical_failures, c) = {}
            /\ NullCheckEntries(qc.result.warnings, c) = {}
    /\ \A c \in ColsOf(tier3_columns) :
         LET n == NullCountQuery(qc.data, c)
             msg == [check |-> "tier3_null", col |-> c, count |-> n]
         IN /\ n > 0 => /\ Occurrences(qc.result.warnings, msg) = 1
                        /\ Cardinality(NullCheckEntries(qc.result.warnings, c)) = 1
            /\ n = 0 => NullCheckEntries(qc.result.warnings, c) = {}
            /\ NullCheckEntries(qc.result.critical_failures, c) = {}

\* A table with rows in which a tier-3 column is NULL in every row.
C11_Witness ==
  /\ Audited
  /\ CountStar(qc.data) > 0
  /\ \E c \in ColsOf(tier3_columns) :
       /\ NullCountQuery(qc.data, c) = CountStar(qc.data)
       /\ Occurrences(qc.result.warnings,
                      [check |-> "tier3_null", col |-> c,
                       count |-> CountStar(qc.data)]) = 1
       /\ NullCheckEntries(qc.result.critical_failures, c) = {}

CallCount(r, op) ==
  Cardinality({i \in 1..Len(run[r].calls) : run[r].calls[i].op = op})

\* C12: a run issues merge_branch at most once, and exactly once (with
\* success) when it returns normally with on_success = merge; a failed merge
\* is not issued again.
C12_OneMerge ==
  \A r \in Runs :
    /\ CallCount(r, "merge_branch") <= 1
    /\ (run[r].pc = "done" /\ run[r].on_success = "merge") =>
         /\ CallCount(r, "merge_branch") = 1
         /\ Succeeded(r, "merge_branch")
    /\ Failed(r, "merge_branch") =>
         run[r].pc \in {"except", "cleanup_has_branch", "cleanup_delete", "raised"}

C12_Witness ==
  \E r \in Runs :
    /\ Failed(r, "merge_branch")
    /\ run[r].pc = "raised"
    /\ CallCount(r, "merge_branch") = 1

\* The workflow state of run r, read off its position in wap_ingest.
WState(r) ==
  CASE run[r].pc \in {"start", "has_branch", "create_branch"} -> "START"
    [] run[r].pc \in {"create_namespace", "has_table", "create_table", "import_data"}
         -> "BRANCH_ACQUIRED"
    [] run[r].pc = "audit" -> "PROVISIONED"
    [] run[r].pc \in {"gate", "publish"} -> "AUDITED"
    [] run[r].pc = "delete_merged" -> "PUBLISHED"
    [] run[r].pc \in {"return", "done"} ->
         IF run[r].on_success = "merge" THEN "PUBLISHED" ELSE "INSPECTION_PENDING"
    [] OTHER -> "ABORTED"

WRank(w) ==
  CASE w = "START" -> 0
    [] w = "BRANCH_ACQUIRED" -> 1
    [] w = "PROVISIONED" -> 2
    [] w = "AUDITED" -> 3
    [] w \in {"PUBLISHED", "INSPECTION_PENDING"} -> 4
    [] OTHER -> 5

\* Each change of workflow state is one step forward or the entry to ABORTED.
ForwardStep ==
  \A r \in Runs :
    WState(r)' # WState(r) =>
      /\ WState(r) # "ABORTED"
      /\ WState(r)' = "ABORTED" \/ WRank(WState(r)') = WRank(WState(r)) + 1

Finished(r) == run[r].pc \in {"raised", "done"}

\* C13 as stated: the workflow states advance only forward; ABORTED is
\* entered from any state, and every run that ends in ABORTED has executed
\* the handler exactly once, every run that ends in PUBLISHED or
\* INSPECTION_PENDING never.
C13_HandlerOncePerAbort ==
  /\ [][ForwardStep]_vars
  /\ [](\A r \in Runs :
          /\ run[r].handler_runs <= 1
          /\ (Finished(r) /\ WState(r) = "ABORTED") => run[r].handler_runs = 1
          /\ (Finished(r) /\ WState(r) # "ABORTED") => run[r].handler_runs = 0)

\* C13 amended: as stated for every run in which a step inside the try
\* block raises an exception; a run whose client.info() call fails, before
\* the try block, ends in ABORTED without executing the handler.
C13_HandlerOncePerCaughtAbort ==
  /\ [][ForwardStep]_vars
  /\ [](\A r \in Runs :
          /\ run[r].handler_runs <= 1
          /\ (Finished(r) /\ WState(r) = "ABORTED" /\ run[r].exc # None)
               => run[r].handler_runs = 1
          /\ (Finished(r) /\ WState(r) = "ABORTED" /\ run[r].exc = None)
               => /\ run[r].handler_runs = 0
                  /\ run[r].calls = <<Call("info", 297, FALSE, FALSE)>>
          /\ (Finished(r) /\ WState(r) # "ABORTED") => run[r].handler_runs = 0)

C13_Witness ==
  \E r \in Runs :
    /\ run[r].pc = "raised"
    /\ Succeeded(r, "merge_branch")
    /\ Failed(r, "delete_branch")
    /\ run[r].handler_runs = 1

\* C14 as stated: an interrupt delivered between branch creation and the end
\* of the publish phase goes through the handler before it reaches the
\* caller, and with on_failure = delete the isolation branch is gone by then.
C14_InterruptRunsCleanup ==
  \A r \in Runs :
    (run[r].pc = "raised" /\ run[r].raised = KeyboardInterrupt
       /\ Succeeded(r, "create_branch")) =>
      /\ run[r].handler_runs = 1
      /\ run[r].on_failure = "delete" => ~has_branch(store, run[r].branch_name)

\* Of the errors wap_ingest raises itself only the collision message
\* (lines 311-313) contains the branch name; a raise returns no tuple.  The
\* text of an error of the store is the store's and is taken to name the ref.
OutcomeCarriesBranch(r) ==
  \/ /\ run[r].returned # None
     /\ run[r].returned.branch_name = run[r].branch_name
  \/ run[r].raised = CollisionError
  \/ run[r].raised.type = "Exception"

\* C15 as stated: when a run fails with on_failure = keep, the outcome the
\* caller receives carries the isolation branch identifier.
C15_FailureCarriesBranch ==
  \A r \in Runs :
    (RaisedThroughHandler(r) /\ run[r].on_failure = "keep") =>
      OutcomeCarriesBranch(r)

TableFoundOnBranch(r) ==
  \E c \in Calls(r) : c.op = "has_table" /\ c.ok /\ c.ret

\* C16: when the target table is already on the fresh isolation branch,
\* wap_ingest fails with the pre-existing-table error before any create_table
\* or import_data call, and the failure goes through the handler.
C16_PreexistingTableAborts ==
  \A r \in Runs :
    /\ (Succeeded(r, "create_branch") /\ has_table(initial, Main, Key(r))) =>
         run[r].pc \notin {"create_table", "import_data", "audit", "gate",
                           "publish", "delete_merged", "return", "done"}
    /\ TableFoundOnBranch(r) =>
         /\ run[r].exc = PreexistingTableError
         /\ ~Issued(r, "create_table")
         /\ ~Issued(r, "import_data")
         /\ run[r].pc \in {"except", "cleanup_has_branch", "cleanup_delete", "raised"}
         /\ run[r].pc = "raised" => run[r].handler_runs = 1

C16_Witness ==
  \E r \in Runs :
    /\ TableFoundOnBranch(r)
    /\ run[r].pc = "raised"
    /\ run[r].raised = PreexistingTableError
    /\ run[r].handler_runs = 1

AbortPcs == {"except", "cleanup_has_branch", "cleanup_delete", "raised"}

BranchData(r) == store[run[r].branch_name].tables[Key(r)]

\* A step that leaves run r where it is leaves r's branch and r's table on
\* main as they are.
OthersLeaveAlone ==
  \A r \in Runs :
    (run[r]' = run[r] /\ run[r].branch_name # None) =>
      /\ has_branch(store', run[r].branch_name) = has_branch(store, run[r].branch_name)
      /\ has_branch(store, run[r].branch_name) =>
           store'[run[r].branch_name] = store[run[r].branch_name]
      /\ has_table(store, Main, Key(r)) =>
           /\ has_table(store', Main, Key(r))
           /\ store'[Main].tables[Key(r)] = store[Main].tables[Key(r)]

\* C18: two concurrent runs for distinct tables have distinct branch names,
\* no step of one run changes the other's branch, and each run ends as it
\* would alone: its verdict is that of its own source, a merge run leaves its
\* table on main and no branch, an inspect run leaves its branch with its
\* rows.
C18_DistinctTablesIndependent ==
  /\ [][OthersLeaveAlone]_vars
  /\ [](\A r1, r2 \in Runs :
          (r1 # r2 /\ run[r1].branch_name # None) =>
            run[r1].branch_name # run[r2].branch_name)
  /\ [](\A r \in Runs :
          /\ HasVerdict(r) =>
               run[r].quality_result
                 = RunDataQualityChecks(run[r].s3_path, run[r].min_rows)
          /\ run[r].exc \notin {CollisionError, PreexistingTableError}
          /\ (run[r].pc = "done" /\ run[r].on_success = "merge") =>
               ~has_branch(store, run[r].branch_name) /\ VisibleOnMain(r)
          /\ (run[r].pc = "done" /\ run[r].on_success = "inspect") =>
               /\ has_branch(store, run[r].branch_name)
               /\ BranchData(r) = run[r].s3_path)

C18_Witness ==
  /\ Cardinality(Runs) = 2
  /\ \A r \in Runs :
       run[r].pc = "done" /\ run[r].on_success = "merge" /\ VisibleOnMain(r)

\* C19 as stated: when wap_ingest raises, main is as it was before the run,
\* also when merge_branch succeeded and the delete_branch after it failed.
C19_RaiseLeavesMain ==
  \A r \in Runs : run[r].pc = "raised" => store[Main] = initial[Main]

RetriableOps ==
  {"create_branch", "create_namespace", "create_table", "import_data",
   "query", "merge_branch", "delete_branch"}

\* C20 as stated: within one run no remote operation is issued again after
\* it failed, and the handler issues at most one branch deletion.
C20_NoRetry ==
  \A r \in Runs :
    /\ \A i, j \in 1..Len(run[r].calls) :
         (i < j /\ ~run[r].calls[i].ok /\ run[r].calls[i].op \in RetriableOps) =>
           run[r].calls[j].op # run[r].calls[i].op
    /\ Cardinality({i \in 1..Len(run[r].calls) : run[r].calls[i].line = 390}) <= 1

\* The calls run r issued from the body of the try block (lines 310-379).
TryCalls(r) ==
  LET InTry(c) == c.line >= 310 /\ c.line <= 379
  IN SelectSeq(run[r].calls, InTry)

OpOrder ==
  <<"has_branch", "create_branch", "create_namespace", "has_table",
    "create_table", "import_data", "query", "merge_branch", "delete_branch">>

\* The i-th call of the try block is the i-th operation of the fixed order.
InFixedOrder(r) ==
  /\ Len(TryCalls(r)) <= Len(OpOrder)
  /\ \A i \in 1..Len(TryCalls(r)) : TryCalls(r)[i].op = OpOrder[i]

\* C21 as stated: the remote operations of the try block occur in the fixed
\* order, and each is issued only after the previous one succeeded.
C21_EachAfterSuccess ==
  \A r \in Runs :
    /\ InFixedOrder(r)
    /\ \A i \in 2..Len(TryCalls(r)) : TryCalls(r)[i - 1].ok

\* C21 amended: the remote operations of the try block occur in the fixed
\* order; each is issued only after the previous one succeeded, except that
\* has_table is issued also after a create_namespace that failed because the
\* namespace already exists; import_data is issued only after create_table
\* succeeded and the quality query only after import_data succeeded.
C21_FixedOrder ==
  \A r \in Runs :
    /\ InFixedOrder(r)
    /\ \A i \in 2..Len(TryCalls(r)) :
         \/ TryCalls(r)[i - 1].ok
         \/ /\ TryCalls(r)[i - 1].op = "create_namespace"
            /\ run[r].namespace \in initial[Main].namespaces
    /\ Issued(r, "import_data") => Succeeded(r, "create_table")
    /\ Issued(r, "query") => Succeeded(r, "import_data")

C21_Witness ==
  \E r \in Runs :
    /\ run[r].pc = "done"
    /\ Len(TryCalls(r)) = Len(OpOrder)
    /\ Failed(r, "create_namespace")
    /\ Succeeded(r, "delete_branch")

\* The checks in the order in which run_data_quality_checks evaluates them.
CheckOrder ==
  << <<"row_count", "*">> >>
  \o [i \in 1..Len(tier1_columns) |-> <<"tier1_null", tier1_columns[i]>>]
  \o [i \in 1..Len(tier2_columns) |-> <<"tier2_null", tier2_columns[i]>>]
  \o [i \in 1..Len(tier3_columns) |-> <<"tier3_null", tier3_columns[i]>>]
  \o [i \in 1..Len(range_checks) |-> <<"range", range_checks[i].col>>]
  \o [i \in 1..Len(non_negative_columns) |-> <<"negative", non_negative_columns[i]>>]

Position(m) ==
  CHOOSE i \in 1..Len(CheckOrder) : CheckOrder[i] = <<m.check, m.col>>

\* The entries of s follow the evaluation order, one per check at most.
InEvaluationOrder(s) ==
  /\ \A i \in 1..Len(s) : \E k \in 1..Len(CheckOrder) : CheckOrder[k] = <<s[i].check, s[i].col>>
  /\ \A i, j \in 1..Len(s) : i < j => Position(s[i]) < Position(s[j])

HasEntry(s, k) == \E i \in 1..Len(s) : <<s[i].check, s[i].col>> = k

\* What check k finds in the table d, read off the rows.
CheckIsCritical(d, min_rows, k) ==
  CASE k[1] = "row_count" -> CountStar(d) < min_rows
    [] k[1] = "tier1_null" -> \E r \in DOMAIN d : IsNull(r[k[2]])
    [] k[1] = "tier2_null" -> NullCountQuery(d, k[2]) * 100 > 5 * CountStar(d)
    [] k[1] = "tier3_null" -> FALSE
    [] k[1] = "range" ->
         \E rc \in ColsOf(range_checks) :
           /\ rc.col = k[2]
           /\ \E r \in DOMAIN d :
                ~IsNull(r[k[2]]) /\ (r[k[2]][1] < rc.min_val \/ r[k[2]][1] > rc.max_val)
    [] k[1] = "negative" -> \E r \in DOMAIN d : ~IsNull(r[k[2]]) /\ r[k[2]][1] < 0

CheckIsWarning(d, k) ==
  CASE k[1] = "tier2_null" ->
         /\ \E r \in DOMAIN d : IsNull(r[k[2]])
         /\ NullCountQuery(d, k[2]) * 100 <= 5 * CountStar(d)
    [] k[1] = "tier3_null" -> \E r \in DOMAIN d : IsNull(r[k[2]])
    [] OTHER -> FALSE

\* C22: when no query raises, every check is evaluated, also after an
\* earlier check (the row-count floor included) gave a critical failure:
\* null_summary has the null count of every tier column, each check whose
\* finding is critical has its entry in critical_failures and each whose
\* finding is a warning has its entry in warnings, and both lists follow the
\* order row count, tier 1, tier 2, tier 3, ranges, non-negativity.
C22_NoShortCircuit ==
  Audited =>
    /\ DOMAIN qc.result.null_summary
         = ColsOf(tier1_columns) \cup ColsOf(tier2_columns) \cup ColsOf(tier3_columns)
    /\ \A c \in DOMAIN qc.result.null_summary :
         qc.result.null_summary[c] = NullCountQuery(qc.data, c)
    /\ \A i \in 1..Len(CheckOrder) :
         /\ HasEntry(qc.result.critical_failures, CheckOrder[i])
              <=> CheckIsCritical(qc.data, qc.min_rows, CheckOrder[i])
         /\ HasEntry(qc.result.warnings, CheckOrder[i])
              <=> CheckIsWarning(qc.data, CheckOrder[i])
    /\ InEvaluationOrder(qc.result.critical_failures)
    /\ InEvaluationOrder(qc.result.warnings)

\* The row-count floor failed, a later null check still gave its warning
\* and the last check group still gave its critical failure.
C22_Witness ==
  /\ Audited
  /\ Len(qc.result.critical_failures) >= 2
  /\ qc.result.critical_failures[1].check = "row_count"
  /\ qc.result.critical_failures[Len(qc.result.critical_failures)].check = "negative"
  /\ Len(qc.result.warnings) >= 1

RangeEntries(s, c) == {i \in 1..Len(s) : s[i].check = "range" /\ s[i].col = c}

\* C23: the range check of a column with bounds [lo, hi] adds one critical
\* failure exactly when the observed minimum and maximum are both non-null
\* and min < lo or max > hi; values equal to lo or hi pass; when the minimum
\* or the maximum is null the check adds no failure; it never adds a warning.
C23_RangeCheck ==
  Audited =>
    \A rc \in ColsOf(range_checks) :
      LET V == NonNullValues(qc.data, rc.col)
          lo == rc.min_val
          hi == rc.max_val
          failures == RangeEntries(qc.result.critical_failures, rc.col)
      IN /\ Cardinality(failures) <= 1
         /\ failures # {} <=> (V # {} /\ \E v \in V : v < lo \/ v > hi)
         /\ (V # {} /\ \A v \in V : lo <= v /\ v <= hi) => failures = {}
         /\ (IsNull(MinQuery(qc.data, rc.col)) \/ IsNull(MaxQuery(qc.data, rc.col)))
              => failures = {}
         /\ RangeEntries(qc.result.warnings, rc.col) = {}

\* A table with rows in which a range-checked column is NULL in every row:
\* the check is skipped.
C23_Witness ==
  /\ Audited
  /\ CountStar(qc.data) > 0
  /\ \E rc \in ColsOf(range_checks) :
       /\ IsNull(MinQuery(qc.data, rc.col))
       /\ RangeEntries(qc.result.critical_failures, rc.col) = {}
       /\ RangeEntries(qc.result.warnings, rc.col) = {}

\* The calls run r issues in the step.
NewCalls(r) ==
  {run[r].calls'[i] : i \in (Len(run[r].calls) + 1)..Len(run[r].calls')}

\* A step of the audit phase of run r issues only queries and leaves the
\* store (the branch, main, the set of refs) as it is.
AuditStepReadsOnly ==
  \A r \in Runs :
    (run[r].pc = "audit" /\ run[r]' # run[r]) =>
      /\ store' = store
      /\ \A c \in NewCalls(r) : c.op = "query"

\* C24: the audit only reads: each of its steps issues no operation but
\* query and changes nothing in the store, and the verdict it returns is that
\* of the rows on the isolation branch, which are still there afterwards.
C24_AuditReadOnly ==
  /\ [][AuditStepReadsOnly]_vars
  /\ [](\A r \in Runs :
          run[r].pc = "gate" =>
            /\ has_branch(store, run[r].branch_name)
            /\ BranchData(r) = run[r].s3_path
            /\ run[r].quality_result
                 = RunDataQualityChecks(BranchData(r), run[r].min_rows)
            /\ store[Main] = initial[Main]
            /\ DOMAIN store = DOMAIN initial \cup {run[r].branch_name})

C24_Witness ==
  \E r \in Runs :
    /\ run[r].pc = "gate"
    /\ Succeeded(r, "query")
    /\ BranchData(r) = run[r].s3_path
    /\ store[Main] = initial[Main]

\* C25 as stated: a run issues delete_branch only when its own create_branch
\* succeeded, under on_failure = keep and under on_failure = delete.
C25_DeletesOnlyOwnBranch ==
  \A r \in Runs : Issued(r, "delete_branch") => Succeeded(r, "create_branch")

SameBranch(r1, r2) ==
  /\ r1 # r2
  /\ run[r1].branch_name # None
  /\ run[r1].branch_name = run[r2].branch_name

\* The existence check of line 311 answered that the branch is absent.
PassedExistenceCheck(r) ==
  \E c \in Calls(r) : c.op = "has_branch" /\ c.line = 311 /\ c.ok /\ ~c.ret

\* Run r created its branch and has not left wap_ingest.
UsesBranch(r) == Succeeded(r, "create_branch") /\ ~Finished(r)

\* A run that did not create the branch leaves the branch of the run that
\* did, and is using it, in the store and as it is.
LoserLeavesBranch ==
  \A r1, r2 \in Runs :
    (SameBranch(r1, r2) /\ UsesBranch(r1) /\ ~Succeeded(r2, "create_branch")
       /\ run[r1]' = run[r1]) =>
      /\ has_branch(store', run[r1].branch_name)
      /\ store'[run[r1].branch_name] = store[run[r1].branch_name]

\* C26 as stated: of two concurrent runs that derive the same branch name
\* at most one passes the existence check, and the run that loses never
\* deletes or writes to the branch the other run is using.
C26_OneRunOwnsBranch ==
  /\ [](\A r1, r2 \in Runs :
          SameBranch(r1, r2) =>
            ~(PassedExistenceCheck(r1) /\ PassedExistenceCheck(r2)))
  /\ [][LoserLeavesBranch]_vars

\* C27: whenever wap_ingest returns normally, the returned success flag is
\* true and the returned quality result is a verdict, not None; this is so
\* also when strict_quality = false and the verdict has passed = false.
C27_ReturnedSuccessTrue ==
  \A r \in Runs :
    /\ run[r].returned # None =>
         /\ run[r].returned.success = TRUE
         /\ run[r].returned.quality_result # None
         /\ run[r].returned.quality_result = run[r].quality_result
    /\ (run[r].returned # None /\ ~run[r].returned.quality_result.passed) =>
         ~run[r].strict_quality
    /\ run[r].pc = "raised" => run[r].returned = None

C27_Witness ==
  \E r \in Runs :
    /\ run[r].returned # None
    /\ ~run[r].strict_quality
    /\ ~run[r].returned.quality_result.passed
    /\ run[r].returned.success

EntriesOf(s, k) == {i \in 1..Len(s) : <<s[i].check, s[i].col>> = k}

\* C28: every result has total_checks = 21, failed_checks = the number of
\* critical failures, passed_checks + failed_checks = total_checks and
\* 0 <= passed_checks <= total_checks; each of the 21 checks has at most one
\* critical failure, so passed_checks is the number of checks without one,
\* checks that only warned and range checks that were skipped included.
C28_CheckCounts ==
  Audited =>
    /\ qc.result.total_checks = 21
    /\ Len(CheckOrder) = 21
    /\ qc.result.failed_checks = Len(qc.result.critical_failures)
    /\ qc.result.passed_checks + qc.result.failed_checks = qc.result.total_checks
    /\ 0 <= qc.result.passed_checks
    /\ qc.result.passed_checks <= qc.result.total_checks
    /\ \A i \in 1..Len(CheckOrder) :
         Cardinality(EntriesOf(qc.result.critical_failures, CheckOrder[i])) <= 1
    /\ qc.result.passed_checks
         = Cardinality({i \in 1..Len(CheckOrder) :
                          EntriesOf(qc.result.critical_failures, CheckOrder[i]) = {}})

\* A table with rows in which a range-checked column is NULL in every row:
\* its range check is skipped and is counted among the passed checks, next
\* to the critical failures of other checks.
C28_Witness ==
  /\ Audited
  /\ CountStar(qc.data) > 0
  /\ \E rc \in ColsOf(range_checks) :
       /\ IsNull(MinQuery(qc.data, rc.col))
       /\ EntriesOf(qc.result.critical_failures, <<"range", rc.col>>) = {}
  /\ qc.result.failed_checks >= 1
  /\ qc.result.passed_checks = 21 - qc.result.failed_checks

\* C29: the null percentage of the tier-2 and tier-3 checks never divides by
\* zero: the audit of every table, the empty one included, returns a result,
\* because the division is reached only under null_count > 0 and a table
\* with a null has a row.
C29_NoDivisionByZero ==
  Audited =>
    /\ qc.result # ZeroDivisionError
    /\ ZeroDivisionSites(qc.data) = {}
    /\ \A c \in ColsOf(tier2_columns) \cup ColsOf(tier3_columns) :
         NullCountQuery(qc.data, c) > 0 => CountStar(qc.data) > 0
    /\ CountStar(qc.data) = 0 =>
         /\ qc.result.row_count = 0
         /\ qc.result.warnings = <<>>

\* The audit of the empty table has returned.
C29_Witness ==
  /\ Audited
  /\ CountStar(qc.data) = 0
  /\ qc.result # ZeroDivisionError
  /\ qc.result.row_count = 0
  /\ \A c \in ColsOf(tier2_columns) \cup ColsOf(tier3_columns) :
       qc.result.null_summary[c] = 0

\* An earlier run has published run r's table to main.
PublishedBefore(r) ==
  \E q \in Runs :
    /\ q < r
    /\ run[q].on_success = "merge"
    /\ Succeeded(q, "merge_branch")
    /\ Key(q) = Key(r)

Merges ==
  Cardinality({r \in Runs : Succeeded(r, "merge_branch")})

\* C30: once a run with on_success = merge has published a table to main, a
\* later run for the same table and namespace gets a branch that holds the
\* table, never issues create_table, import_data or merge_branch, and when
\* its table check answers it fails with the pre-existing-table error; of
\* runs made one after the other at most one publishes the table, and main
\* keeps the rows of that run.
C30_PublishedOnce ==
  /\ \A r \in Runs :
       (PublishedBefore(r) /\ run[r].pc # "start") =>
         /\ has_table(store, Main, Key(r))
         /\ (Succeeded(r, "create_branch") /\ run[r].pc \in {"create_namespace", "has_table"})
              => has_table(store, run[r].branch_name, Key(r))
         /\ ~Issued(r, "create_table")
         /\ ~Issued(r, "import_data")
         /\ ~Issued(r, "merge_branch")
         /\ run[r].pc \notin {"create_table", "import_data", "audit", "gate",
                               "publish", "delete_merged", "return", "done"}
         /\ (\E c \in Calls(r) : c.op = "has_table" /\ c.ok) =>
              /\ TableFoundOnBranch(r)
              /\ run[r].exc = PreexistingTableError
         /\ ~VisibleOnMain(r)
  /\ Merges <= 1

C30_Witness ==
  /\ run[1].pc = "done"
  /\ run[1].on_success = "merge"
  /\ VisibleOnMain(1)
  /\ run[2].pc = "raised"
  /\ run[2].raised = PreexistingTableError
  /\ ~Issued(2, "create_table")

====
